---- MODULE Spec2Model ----
(***************************************************************************)
(* User registration: RegistrationService.register on top of              *)
(* SqlAlchemyUserRepository (save / find_by_id / find_by_email).           *)
(*                                                                         *)
(* Every caller (process) owns one SQLAlchemy session and one repository   *)
(* bound to it; all sessions talk to the same database.  A repository      *)
(* call is one database round trip and therefore one atomic step; register *)
(* is split at its two repository calls (find_by_email, then save), which  *)
(* is where concurrent registrations can interleave.                       *)
(***************************************************************************)
EXTENDS Naturals, Sequences, FiniteSets, TLC

VARIABLES db,       \* committed rows of the users table
          sess,     \* sess[p]: the SQLAlchemy session of caller p
          pc,       \* pc[p]: "idle" | "save" (register between find and save) | "done"
          call,     \* call[p]: the operation in progress and its arguments
          user,     \* user[p]: register's local variable `user`
          seen,     \* seen[p]: the table as it was when register ran find_by_email
          result,   \* result[p]: what the operation returned or raised
          saved     \* the Users that have been saved successfully

vars == <<db, sess, pc, call, user, seen, result, saved>>

-----------------------------------------------------------------------------
(* Bounds *)

MaxId == 1
HexWidth == 2

\* two callers, each with a session of its own
Procs == {"c1", "c2"}
Ids == 0..MaxId
\* datetime.now() at the construction of a User: opaque values to this code
Times == {"2024-01-01T00:00:00", "2024-01-01T00:00:01"}
Emails == {"test@example.com", "find_test@example.com"}
Passwords == {"anything"}
LookupEmails == Emails \cup {"nonexistent@example.com"}
StoredHashes == {"hashed_password_123"}

-----------------------------------------------------------------------------
(* UUID <-> string *)

HexDigits == <<"0", "1", "2", "3", "4", "5", "6", "7",
               "8", "9", "a", "b", "c", "d", "e", "f">>

RECURSIVE Pow16(_)
Pow16(n) == IF n = 0 THEN 1 ELSE 16 * Pow16(n - 1)

\* str(uuid): the hexadecimal digits, most significant first
UuidStr(u) == [i \in 1..HexWidth |-> HexDigits[((u \div Pow16(HexWidth - i)) % 16) + 1]]

HexValue(c) == (CHOOSE k \in 1..16 : HexDigits[k] = c) - 1

RECURSIVE UuidParseFrom(_, _)
UuidParseFrom(s, acc) ==
    IF s = <<>> THEN acc ELSE UuidParseFrom(Tail(s), 16 * acc + HexValue(Head(s)))

\* UUID(string)
UuidParse(s) == UuidParseFrom(s, 0)

-----------------------------------------------------------------------------
(* Domain entity and collaborators *)

NoUser == [id |-> 0, email |-> "", hashed_password |-> "", created_at |-> "",
           is_active |-> FALSE]

\* User(email=..., hashed_password=...): id = uuid4(), created_at = now, is_active = True
NewUser(id, email, hashed, now) ==
    [id |-> id, email |-> email, hashed_password |-> hashed, created_at |-> now,
     is_active |-> TRUE]

\* the default hasher
hash_password(password) == "$2b$" \o password

-----------------------------------------------------------------------------
(* Results of a call *)

NoResult == [kind |-> "pending", value |-> NoUser, ref |-> "", exc |-> "", msg |-> ""]

ReturnUser(u, ref) == [kind |-> "user", value |-> u, ref |-> ref, exc |-> "", msg |-> ""]

ReturnNone == [kind |-> "none", value |-> NoUser, ref |-> "", exc |-> "", msg |-> ""]

Raise(exc, msg) == [kind |-> "raise", value |-> NoUser, ref |-> "", exc |-> exc, msg |-> msg]

-----------------------------------------------------------------------------
(* Storage: the users table and the session *)

\* a users table whose only constraint is the primary key
UniqueViolation_PkOnly(d, rows) ==
    \/ \E r \in rows : \E x \in d : x.id = r.id
    \/ \E r1 \in rows : \E r2 \in rows : r1 # r2 /\ r1.id = r2.id

\* primary key on id, unique constraint on email
UniqueViolation(d, rows) ==
    \/ \E r \in rows : \E x \in d : x.id = r.id \/ x.email = r.email
    \/ \E r1 \in rows : \E r2 \in rows : r1 # r2 /\ (r1.id = r2.id \/ r1.email = r2.email)

NewSession == [active |-> TRUE, new |-> {}]

\* session.add(user_model)
SessionAdd(s, row) == [s EXCEPT !.new = @ \cup {row}]

\* session.commit(): flush the pending rows and commit, or fail and leave the
\* session's transaction inactive until rollback() is called
SessionCommit(d, s) ==
    IF ~s.active
    THEN [db |-> d, sess |-> s, exc |-> "PendingRollbackError"]
    ELSE IF UniqueViolation(d, s.new)
    THEN [db |-> d, sess |-> [s EXCEPT !.active = FALSE], exc |-> "IntegrityError"]
    ELSE [db |-> d \cup s.new, sess |-> [s EXCEPT !.new = {}], exc |-> ""]

\* session.rollback()
SessionRollback(s) == [active |-> TRUE, new |-> {}]

\* session.refresh(user_model): reload the row by primary key
SessionRefresh(d, row) == CHOOSE r \in d : r.id = row.id

-----------------------------------------------------------------------------
(* SqlAlchemyUserRepository *)

\* a row whose key the storage layer assigns itself
UserModel_NewId(u) ==
    [id |-> UuidStr((u.id + 1) % (MaxId + 1)), email |-> u.email,
     hashed_password |-> u.hashed_password, created_at |-> u.created_at,
     is_active |-> u.is_active]

\* UserModel(id=str(user.id), email=..., ...)
UserModel(u) ==
    [id |-> UuidStr(u.id), email |-> u.email, hashed_password |-> u.hashed_password,
     created_at |-> u.created_at, is_active |-> u.is_active]

\* a conversion that leaves is_active to the User constructor's default
to_domain_user_DefaultActive(row) ==
    [id |-> UuidParse(row.id), email |-> row.email,
     hashed_password |-> row.hashed_password, created_at |-> row.created_at,
     is_active |-> TRUE]

to_domain_user(row) ==
    [id |-> UuidParse(row.id), email |-> row.email,
     hashed_password |-> row.hashed_password, created_at |-> row.created_at,
     is_active |-> row.is_active]

\* save without the rollback in its except branch
save_NoRollback(d, s, u) ==
    LET user_model == UserModel(u)
        c == SessionCommit(d, SessionAdd(s, user_model))
    IN  IF c.exc = ""
        THEN [db |-> c.db, sess |-> c.sess,
              result |-> ReturnUser(to_domain_user(SessionRefresh(c.db, user_model)),
                                    "to_domain_user")]
        ELSE [db |-> c.db, sess |-> c.sess, result |-> Raise(c.exc, "")]

save(d, s, u) ==
    LET user_model == UserModel(u)
        c == SessionCommit(d, SessionAdd(s, user_model))
    IN  IF c.exc = ""
        THEN [db |-> c.db, sess |-> c.sess,
              result |-> ReturnUser(to_domain_user(SessionRefresh(c.db, user_model)),
                                    "to_domain_user")]
        ELSE IF c.exc = "IntegrityError"
        THEN [db |-> c.db, sess |-> SessionRollback(c.sess),
              result |-> Raise("IntegrityError", "")]
        ELSE [db |-> c.db, sess |-> c.sess, result |-> Raise(c.exc, "")]

\* .one() in place of .first(): a miss raises
QueryFirst_One(d, s, matching) ==
    IF ~s.active THEN Raise("PendingRollbackError", "")
    ELSE IF matching = {} THEN Raise("NoResultFound", "")
    ELSE ReturnUser(to_domain_user(CHOOSE r \in matching : TRUE), "to_domain_user")

\* query(UserModel).filter(...).first()
QueryFirst(d, s, matching) ==
    IF ~s.active THEN Raise("PendingRollbackError", "")
    ELSE IF matching = {} THEN ReturnNone
    ELSE ReturnUser(to_domain_user(CHOOSE r \in matching : TRUE), "to_domain_user")

find_by_id(d, s, id) == QueryFirst(d, s, {r \in d : r.id = UuidStr(id)})

\* a filter on the wrong column
find_by_email_WrongColumn(d, s, email) ==
    QueryFirst(d, s, {r \in d : r.hashed_password = email})

find_by_email(d, s, email) == QueryFirst(d, s, {r \in d : r.email = email})

-----------------------------------------------------------------------------
(* RegistrationService.register *)

DuplicateEmail(email) == Raise("ValueError", "Email " \o email \o " is already registered")

\* register without the duplicate check
register_check_NoDup(d, s, email) ==
    LET existing == find_by_email(d, s, email)
    IN  IF existing.kind = "raise" THEN existing ELSE NoResult

\* existing = find_by_email(email); if existing: raise ...
register_check(d, s, email) ==
    LET existing == find_by_email(d, s, email)
    IN  IF existing.kind = "raise" THEN existing
        ELSE IF existing.kind = "user" THEN DuplicateEmail(email)
        ELSE NoResult

\* a User built from the plaintext password
register_construct_Plain(id, email, password, now) ==
    NewUser(id, email, password, now)

\* hashed = hasher(password); user = User(email=email, hashed_password=hashed)
register_construct(id, email, password, now) ==
    NewUser(id, email, hash_password(password), now)

\* register catching the storage error and reporting a duplicate
register_save_Translate(d, s, u) ==
    LET r == save(d, s, u)
    IN  IF r.result.kind = "raise" THEN [r EXCEPT !.result = DuplicateEmail(u.email)]
        ELSE [r EXCEPT !.result = ReturnUser(u, "register.user")]

\* self._repository.save(user); return user
register_save(d, s, u) ==
    LET r == save(d, s, u)
    IN  IF r.result.kind = "raise" THEN r
        ELSE [r EXCEPT !.result = ReturnUser(u, "register.user")]

-----------------------------------------------------------------------------
(* State machine *)

NoCall == [op |-> "", email |-> "", password |-> "", id |-> 0, user |-> NoUser]

Init ==
    /\ db = {}
    /\ sess = [p \in Procs |-> NewSession]
    /\ pc = [p \in Procs |-> "idle"]
    /\ call = [p \in Procs |-> NoCall]
    /\ user = [p \in Procs |-> NoUser]
    /\ seen = [p \in Procs |-> {}]
    /\ result = [p \in Procs |-> NoResult]
    /\ saved = {}

\* uuid4(): an identifier no stored row and no live User carries
FreshIds ==
    Ids \ ({UuidParse(r.id) : r \in db}
            \cup {user[q].id : q \in {x \in Procs : pc[x] # "idle" /\ call[x].op = "register"}}
            \cup {call[q].user.id : q \in {x \in Procs : pc[x] # "idle" /\ call[x].op = "save"}})

\* register(email, password) up to the construction of `user`
RegisterBegin(p, email, password) ==
    /\ pc[p] = "idle"
    /\ call' = [call EXCEPT ![p] = [NoCall EXCEPT !.op = "register", !.email = email,
                                                  !.password = password]]
    /\ seen' = [seen EXCEPT ![p] = db]
    /\ LET chk == register_check(db, sess[p], email)
       IN  IF chk.kind = "raise"
           THEN /\ result' = [result EXCEPT ![p] = chk]
                /\ pc' = [pc EXCEPT ![p] = "done"]
                /\ UNCHANGED user
           ELSE \E id \in FreshIds : \E now \in Times :
                /\ user' = [user EXCEPT ![p] = register_construct(id, email, password, now)]
                /\ pc' = [pc EXCEPT ![p] = "save"]
                /\ UNCHANGED result
    /\ UNCHANGED <<db, sess, saved>>

\* register from self._repository.save(user) to its return
RegisterSave(p) ==
    /\ pc[p] = "save"
    /\ LET r == register_save(db, sess[p], user[p])
       IN  /\ db' = r.db
           /\ sess' = [sess EXCEPT ![p] = r.sess]
           /\ result' = [result EXCEPT ![p] = r.result]
           /\ saved' = IF r.result.kind = "user" THEN saved \cup {user[p]} ELSE saved
    /\ pc' = [pc EXCEPT ![p] = "done"]
    /\ seen' = [seen EXCEPT ![p] = {}]
    /\ UNCHANGED <<call, user>>

\* repository.save(u) called directly
Save(p, u) ==
    /\ pc[p] = "idle"
    /\ call' = [call EXCEPT ![p] = [NoCall EXCEPT !.op = "save", !.user = u]]
    /\ LET r == save(db, sess[p], u)
       IN  /\ db' = r.db
           /\ sess' = [sess EXCEPT ![p] = r.sess]
           /\ result' = [result EXCEPT ![p] = r.result]
           /\ saved' = IF r.result.kind = "user" THEN saved \cup {u} ELSE saved
    /\ pc' = [pc EXCEPT ![p] = "done"]
    /\ UNCHANGED <<user, seen>>

\* repository.find_by_id(id) called directly
FindById(p, id) ==
    /\ pc[p] = "idle"
    /\ call' = [call EXCEPT ![p] = [NoCall EXCEPT !.op = "find_by_id", !.id = id]]
    /\ result' = [result EXCEPT ![p] = find_by_id(db, sess[p], id)]
    /\ pc' = [pc EXCEPT ![p] = "done"]
    /\ UNCHANGED <<db, sess, user, seen, saved>>

\* repository.find_by_email(email) called directly
FindByEmail(p, email) ==
    /\ pc[p] = "idle"
    /\ call' = [call EXCEPT ![p] = [NoCall EXCEPT !.op = "find_by_email", !.email = email]]
    /\ result' = [result EXCEPT ![p] = find_by_email(db, sess[p], email)]
    /\ pc' = [pc EXCEPT ![p] = "done"]
    /\ UNCHANGED <<db, sess, user, seen, saved>>

\* the caller takes the outcome; the session stays with the caller
Return(p) ==
    /\ pc[p] = "done"
    /\ pc' = [pc EXCEPT ![p] = "idle"]
    /\ call' = [call EXCEPT ![p] = NoCall]
    /\ user' = [user EXCEPT ![p] = NoUser]
    /\ seen' = [seen EXCEPT ![p] = {}]
    /\ result' = [result EXCEPT ![p] = NoResult]
    /\ UNCHANGED <<db, sess, saved>>

SaveInputs ==
    [id : Ids, email : Emails, hashed_password : StoredHashes, created_at : Times,
     is_active : BOOLEAN]

Next ==
    \/ \E p \in Procs : \E email \in Emails : \E password \in Passwords :
          RegisterBegin(p, email, password)
    \/ \E p \in Procs : RegisterSave(p)
    \/ \E p \in Procs : \E u \in SaveInputs : Save(p, u)
    \/ \E p \in Procs : \E id \in Ids : FindById(p, id)
    \/ \E p \in Procs : \E email \in LookupEmails : FindByEmail(p, email)
    \/ \E p \in Procs : Return(p)

Spec == Init /\ [][Next]_vars

-----------------------------------------------------------------------------
(* Properties *)

\* p completes a save in this step: a direct save, or register's save
SaveStep(p) ==
    \/ pc[p] = "idle" /\ pc'[p] = "done" /\ call'[p].op = "save"
    \/ pc[p] = "save" /\ pc'[p] = "done"

\* the User that save receives in such a step
SaveArg(p) == IF pc[p] = "save" THEN user[p] ELSE call'[p].user

\* u collides with a stored row on email or on id
Collides(d, u) == \E r \in d : r.email = u.email \/ UuidParse(r.id) = u.id

\* C1: in every reachable state, at most one stored row has any given email.
C1_UniqueEmail ==
    \A r1 \in db : \A r2 \in db : r1.email = r2.email => r1 = r2

C1_Witness ==
    /\ Cardinality(db) = 2
    /\ \E p \in Procs : \E r \in db :
         /\ pc[p] = "done" /\ result[p].exc = "IntegrityError"
         /\ call[p].op = "save" /\ call[p].user.email = r.email
         /\ UuidParse(r.id) # call[p].user.id

\* C2: register for an email that is already stored fails with the duplicate
\* error carrying that email, never reaches save, and leaves the store as it was.
C2_DuplicateRejected ==
    [][\A p \in Procs :
          (/\ pc[p] = "idle" /\ pc'[p] # "idle"
           /\ call'[p].op = "register"
           /\ \E r \in db : r.email = call'[p].email)
          => /\ pc'[p] = "done"
             /\ result'[p].kind = "raise"
             /\ result'[p].exc = "ValueError"
             /\ result'[p].msg = "Email " \o call'[p].email \o " is already registered"
             /\ db' = db /\ sess' = sess /\ saved' = saved]_vars

C2_Witness ==
    \E p \in Procs :
        /\ pc[p] = "done" /\ call[p].op = "register"
        /\ result[p].exc = "ValueError"
        /\ \E r \in db : r.email = call[p].email

\* C3: register for an email nobody has stored, run with no other write between
\* its lookup and its save, succeeds, adds exactly one row and changes no other,
\* and returns a User with the given email, a hashed_password different from the
\* plaintext password and an id.
C3_RegisterSucceeds ==
    [][\A p \in Procs :
          /\ (/\ pc[p] = "idle" /\ pc'[p] # "idle"
              /\ call'[p].op = "register"
              /\ ~ \E r \in db : r.email = call'[p].email)
             => pc'[p] = "save" /\ db' = db
          /\ (pc[p] = "save" /\ pc'[p] = "done" /\ db = seen[p])
             => /\ result'[p].kind = "user"
                /\ result'[p].value.email = call[p].email
                /\ result'[p].value.hashed_password # call[p].password
                /\ result'[p].value.id \in Ids
                /\ UuidStr(result'[p].value.id) # <<>>
                /\ db \subseteq db'
                /\ Cardinality(db' \ db) = 1]_vars

C3_Witness ==
    \E p \in Procs :
        /\ pc[p] = "done" /\ call[p].op = "register"
        /\ result[p].kind = "user"
        /\ result[p].value.email = call[p].email
        /\ \E r \in db : r.email = call[p].email /\ r.hashed_password = "$2b$anything"

\* C4: what register returns on success is the User that save returned (the one
\* rebuilt from the committed row), not the User built before the save.
C4_ReturnsSavedUser ==
    \A p \in Procs :
        (pc[p] = "done" /\ call[p].op = "register" /\ result[p].kind = "user")
        => result[p].ref = "to_domain_user"

\* C5: a save whose User collides with a stored row on email or id raises the
\* integrity error after a rollback; the store is as before, no lookup sees the
\* rejected User, and the session accepts later saves.
C5_RejectedSaveLeavesStore ==
    [][\A p \in Procs :
          (SaveStep(p) /\ Collides(db, SaveArg(p)))
          => /\ result'[p].kind = "raise"
             /\ result'[p].exc = "IntegrityError"
             /\ db' = db
             /\ sess'[p] = NewSession
             /\ \A q \in Procs :
                  /\ find_by_id(db', sess'[q], SaveArg(p).id)
                       = find_by_id(db, sess[q], SaveArg(p).id)
                  /\ find_by_email(db', sess'[q], SaveArg(p).email)
                       = find_by_email(db, sess[q], SaveArg(p).email)
             /\ \A v \in SaveInputs :
                  ~ Collides(db', v) => save(db', sess'[p], v).result.kind = "user"]_vars

C5_Witness ==
    \E p \in Procs :
        /\ pc[p] = "done" /\ call[p].op = "save"
        /\ result[p].exc = "IntegrityError"
        /\ sess[p] = NewSession
        /\ \E r \in db : UuidParse(r.id) = call[p].user.id /\ r.email # call[p].user.email
        /\ \E v \in SaveInputs : save(db, sess[p], v).result.kind = "user"

\* C6: of two register calls for one email that both passed the lookup, the first
\* to save succeeds and the other ends with the integrity error of save, as
\* raised; never do both succeed and never does a second row with the email appear.
C6_RaceOneWinner ==
    [][/\ \A p \in Procs :
            (pc[p] = "save" /\ pc'[p] = "done")
            => /\ (\E r \in db : r.email = user[p].email)
                  => /\ result'[p].kind = "raise"
                     /\ result'[p].exc = "IntegrityError"
                     /\ result'[p].msg = ""
                     /\ db' = db
               /\ (/\ \E q \in Procs \ {p} : pc[q] = "save" /\ user[q].email = user[p].email
                   /\ ~ Collides(db, user[p]))
                  => /\ result'[p].kind = "user"
                     /\ Cardinality({r \in db' : r.email = user[p].email}) = 1
       /\ \A p \in Procs : \A q \in Procs \ {p} :
            ~ (/\ pc'[p] = "done" /\ pc'[q] = "done"
               /\ call'[p].op = "register" /\ call'[q].op = "register"
               /\ call'[p].email = call'[q].email
               /\ result'[p].kind = "user" /\ result'[q].kind = "user")
       /\ \A r1 \in db' : \A r2 \in db' : r1.email = r2.email => r1 = r2]_vars

C6_Witness ==
    \E p \in Procs : \E q \in Procs \ {p} :
        /\ pc[p] = "done" /\ pc[q] = "done"
        /\ call[p].op = "register" /\ call[q].op = "register"
        /\ call[p].email = call[q].email
        /\ result[p].kind = "user"
        /\ result[q].exc = "IntegrityError"

\* C7: for every saved User, in every later state, find_by_id(saved.id) returns
\* a User equal to it in id, email, hashed_password, created_at and is_active.
C7_FindByIdRoundTrip ==
    \A u \in saved : \A p \in Procs :
        LET f == find_by_id(db, sess[p], u.id)
        IN  /\ f.kind = "user"
            /\ f.value.id = u.id
            /\ f.value.email = u.email
            /\ f.value.hashed_password = u.hashed_password
            /\ f.value.created_at = u.created_at
            /\ f.value.is_active = u.is_active

C7_Witness ==
    \E p \in Procs :
        /\ pc[p] = "done" /\ call[p].op = "find_by_id"
        /\ result[p].kind = "user"
        /\ result[p].value \in saved
        /\ ~ result[p].value.is_active
        /\ result[p].value.created_at = "2024-01-01T00:00:01"
        /\ result[p].value.id = MaxId
        /\ Cardinality(saved) = 2

\* C8: for every saved User, from the state right after its save on,
\* find_by_email(saved.email) returns a User with the saved User's id.
C8_FindByEmailRoundTrip ==
    \A u \in saved : \A p \in Procs :
        LET f == find_by_email(db, sess[p], u.email)
        IN  f.kind = "user" /\ f.value.id = u.id

C8_Witness ==
    \E p \in Procs : \E q \in Procs \ {p} :
        /\ pc[p] = "done" /\ call[p].op = "find_by_email"
        /\ result[p].kind = "user"
        /\ pc[q] = "done" /\ call[q].op \in {"save", "register"}
        /\ result[q].kind = "user"
        /\ result[q].value.email = call[p].email
        /\ result[p].value.id = result[q].value.id

\* the identifiers and the emails of the Users saved so far
SavedIds == {u.id : u \in saved}
SavedEmails == {u.email : u \in saved}

Misses ==
    \A p \in Procs :
        /\ \A id \in Ids \ SavedIds : find_by_id(db, sess[p], id) = ReturnNone
        /\ \A email \in LookupEmails \ SavedEmails :
              find_by_email(db, sess[p], email) = ReturnNone

\* C9: for an id or an email that was never saved successfully, a rejected save
\* included, both lookups return None without raising, and a lookup changes
\* nothing in the store.
C9_MissReturnsNone ==
    [][/\ Misses'
       /\ \A p \in Procs :
            (pc[p] = "idle" /\ pc'[p] = "done"
             /\ call'[p].op \in {"find_by_id", "find_by_email"})
            => /\ result'[p].kind # "raise"
               /\ db' = db /\ sess' = sess /\ saved' = saved]_vars

C9_Witness ==
    \E p \in Procs : \E q \in Procs \ {p} :
        /\ pc[p] = "done" /\ call[p].op = "save"
        /\ result[p].exc = "IntegrityError"
        /\ call[p].user.email \notin SavedEmails
        /\ pc[q] = "done" /\ call[q].op = "find_by_email"
        /\ call[q].email = call[p].user.email
        /\ result[q] = ReturnNone

\* C10: a User has its id before save is invoked and storage never changes it:
\* a successful save returns a User with the id it was given and the one row it
\* adds is keyed by that id.
C10_IdPreserved ==
    [][\A p \in Procs :
          /\ (pc[p] = "idle" /\ pc'[p] = "save") => user'[p].id \in Ids
          /\ (pc[p] = "save" /\ pc'[p] = "done") => user'[p] = user[p]
          /\ (SaveStep(p) /\ result'[p].kind = "user")
             => /\ result'[p].value.id = SaveArg(p).id
                /\ save(db, sess[p], SaveArg(p)).result.value.id = SaveArg(p).id
                /\ \E r \in db' :
                     /\ db' \ db = {r}
                     /\ r.id = UuidStr(SaveArg(p).id)
                     /\ UuidParse(r.id) = SaveArg(p).id]_vars

C10_Witness ==
    \E p \in Procs :
        /\ pc[p] = "done" /\ call[p].op = "save"
        /\ result[p].kind = "user"
        /\ call[p].user.id = MaxId
        /\ result[p].value.id = MaxId
        /\ \E r \in db : r.id = UuidStr(MaxId) /\ r.email = call[p].user.email

====
